---- MODULE Spec2Model ----
(***************************************************************************)
(* A model of package geohash (src/geohash.go): the range codec, the bit  *)
(* interleaver, the integer and string geohash codecs, the bounding-box   *)
(* model and the neighbor derivation.                                      *)
(*                                                                         *)
(* Representation.                                                         *)
(*  - A uint32 / uint64 word is the set of the positions of its 1 bits     *)
(*    (a subset of 0..31 / 0..63), so shifts, masks and the width of the   *)
(*    word are exactly those of the code.                                  *)
(*  - A float64 is modelled by the real number it holds, as an exact       *)
(*    fixed-point number: an integer count of units of                     *)
(*    2^-FracBits * 10^-DecPlaces, kept as little-endian limbs of base     *)
(*    2^16 (the last limb carries the sign).  Sums, differences and        *)
(*    products by powers of 2 and 10 are exact; a quotient is rounded      *)
(*    toward zero to a whole number of units.  The rounding of float64     *)
(*    to 53 bits is not modelled.                                          *)
(*  - A string is a sequence of one-character strings.                     *)
(***************************************************************************)
EXTENDS Integers, Sequences, FiniteSets, TLC

(***************************************************************************)
(* Program constants.                                                      *)
(***************************************************************************)
WordBits == 64
AxisBits == 32
CharBits == 5
MaxChars == 12
LatRange == 90
LngRange == 180

(***************************************************************************)
(* Bounds of the model.                                                    *)
(***************************************************************************)
\* The sampled coordinates lie on the grid of 2^GridBits steps per axis
\* (plus finer offsets, see AxisSamples).
GridBits == 2

(***************************************************************************)
(* Exact real arithmetic (the float64 values of the code).                 *)
(***************************************************************************)
\* A number is a whole count of units of 2^-(16 FracLimbs) * 10^-DecPlaces,
\* held in Limbs limbs of 16 bits.
Limbs == 8
FracLimbs == 3
DecPlaces == 7

Base == 2^16
LimbIdx == 1..Limbs

\* F(x) and F(x, y) with the arguments evaluated once, before F uses them.
Bind(x, F(_)) == CHOOSE r \in {F(v) : v \in {x}} : r = r
Bind2(x, y, F(_, _)) == CHOOSE r \in {F(v, w) : v \in {x}, w \in {y}} : r = r

\* The carry into limb i of a raw (unnormalised) limb vector.
RECURSIVE Carry(_, _)
Carry(raw, i) ==
    IF i = 1 THEN 0 ELSE (raw[i-1] + Carry(raw, i-1)) \div Base

\* Normal form: limbs 1..Limbs-1 in 0..Base-1, the last limb signed.
Norm(raw) ==
    Bind(raw, LAMBDA v :
        [i \in LimbIdx |->
            IF i = Limbs THEN v[i] + Carry(v, i)
                         ELSE (v[i] + Carry(v, i)) % Base])

FZero == [i \in LimbIdx |-> 0]
FAdd(a, b) == Bind2(a, b, LAMBDA v, w : Norm([i \in LimbIdx |-> v[i] + w[i]]))
FSub(a, b) == Bind2(a, b, LAMBDA v, w : Norm([i \in LimbIdx |-> v[i] - w[i]]))
FNeg(a) == Bind(a, LAMBDA v : Norm([i \in LimbIdx |-> 0 - v[i]]))
FIsNeg(a) == a[Limbs] < 0
FLess(a, b) == FIsNeg(FSub(a, b))
FLeq(a, b) == ~FLess(b, a)

\* a * k for an integer 0 <= k < 2^15.
FMulInt(a, k) == Bind(a, LAMBDA v : Norm([i \in LimbIdx |-> v[i] * k]))

\* The remainder carried into limb i by the floor division of a >= 0 by d.
RECURSIVE DivRem(_, _, _)
DivRem(a, d, i) ==
    IF i > Limbs THEN 0 ELSE (DivRem(a, d, i+1) * Base + a[i]) % d

\* floor(a / d) for a >= 0 and an integer 0 < d < 2^15.
FloorDiv(a, d) ==
    [i \in LimbIdx |-> (DivRem(a, d, i+1) * Base + a[i]) \div d]

\* a * 2^(16 n) for a >= 0: the limbs moved up (n > 0) or down (n < 0,
\* rounding down).
MoveLimbs(a, n) ==
    [i \in LimbIdx |-> IF i - n \in LimbIdx THEN a[i - n] ELSE 0]

\* G(|a|) with the sign of a: G is a rounding-down operation on a
\* magnitude, so the result is rounded toward zero.
OnMagnitude(a, G(_)) ==
    Bind(a, LAMBDA v :
        IF FIsNeg(v) THEN FNeg(Bind(FNeg(v), LAMBDA m : G(m))) ELSE G(v))

\* a / d rounded toward zero (exact whenever d divides a), 0 < d < 2^15.
FQuoInt(a, d) == OnMagnitude(a, LAMBDA m : FloorDiv(m, d))

\* a * 2^e; for e < 0 rounded toward zero (exact on the values the code
\* computes).
FMulPow2(a, e) ==
    IF e >= 0
    THEN OnMagnitude(a, LAMBDA m :
             Bind(MoveLimbs(m, e \div 16), LAMBDA u :
                 Norm([i \in LimbIdx |-> u[i] * 2^(e % 16)])))
    ELSE OnMagnitude(a, LAMBDA m :
             Bind(((0 - e) + 15) \div 16, LAMBDA q :
                 Bind(Norm([i \in LimbIdx |-> m[i] * 2^(16 * q + e)]), LAMBDA u :
                     MoveLimbs(u, 0 - q))))

\* 10^n for 0 <= n <= 4.
SmallPow10(n) == 10^n

\* a * 10^e; for e < 0 rounded toward zero (exact on the values the code
\* computes).  |e| <= 8.
FMulPow10(a, e) ==
    IF e >= 0
    THEN LET hi == IF e > 4 THEN e - 4 ELSE 0
         IN  OnMagnitude(a, LAMBDA m :
                 Bind(Norm([j \in LimbIdx |-> m[j] * SmallPow10(e - hi)]), LAMBDA u :
                     Norm([i \in LimbIdx |-> u[i] * SmallPow10(hi)])))
    ELSE LET hi == IF e < -4 THEN (0 - e) - 4 ELSE 0
         IN  OnMagnitude(a, LAMBDA m :
                 Bind(FloorDiv(m, SmallPow10((0 - e) - hi)), LAMBDA u :
                     FloorDiv(u, SmallPow10(hi))))

\* The integer n >= 0, n < Base, as a count of units (not scaled).
RawInt(n) == [i \in LimbIdx |-> IF i = 1 THEN n ELSE 0]

\* The whole number a as unscaled limbs (a count of ones), and back.
Unscaled(a) == FMulPow2(FMulPow10(a, 0 - DecPlaces), 0 - 16 * FracLimbs)
Scaled(n) == FMulPow10(FMulPow2(n, 16 * FracLimbs), DecPlaces)

\* The real number 1.
FOne == Scaled(RawInt(1))

\* The real number n, for an integer |n| < 2^15.
FInt(n) == IF n < 0 THEN FNeg(FMulInt(FOne, 0 - n)) ELSE FMulInt(FOne, n)

\* math.Ldexp(x, e) = x * 2^e.
Ldexp(x, e) == FMulPow2(x, e)

\* a rounded toward zero to a whole number (the integer part of a).
FTrunc(a) == Scaled(Unscaled(a))

\* math.Floor and math.Ceil.
FFloor(a) ==
    Bind(a, LAMBDA v :
        Bind(FTrunc(v), LAMBDA t :
            IF FIsNeg(v) /\ t # v THEN FSub(t, FOne) ELSE t))
FCeil(a) == FNeg(FFloor(FNeg(a)))

(***************************************************************************)
(* Machine words.                                                          *)
(***************************************************************************)
Word64 == 0..(WordBits - 1)
Word32 == 0..(AxisBits - 1)

\* X << n and X >> n on uint64.  Go defines a shift by a count of 64 or
\* more: every bit is shifted out.
Shl(X, n) == {i + n : i \in X} \cap Word64
Shr(X, n) == {i - n : i \in X} \cap Word64

\* a - b on uint.  When b > a the result wraps to 2^64 + a - b, which for
\* the operands used here is larger than every shift width and string length;
\* it is represented by WrappedUint.
WrappedUint == 2^30
UintSub(a, b) == IF b <= a THEN a - b ELSE WrappedUint

\* The masks of the spread / squash ladders: 0x0000ffff0000ffff (w = 16),
\* 0x00ff00ff00ff00ff (8), 0x0f0f0f0f0f0f0f0f (4), 0x3333333333333333 (2),
\* 0x5555555555555555 (1) and 0x00000000ffffffff (32).
LadderMask(w) == {i \in Word64 : (i \div w) % 2 = 0}

\* uint32(X) of a uint64.
Low32(X) == X \cap Word32

\* The value of bits lo..lo+n-1 of X as an integer (n small).
RECURSIVE BitsValue(_, _, _)
BitsValue(X, lo, n) ==
    IF n = 0 THEN 0
    ELSE (IF lo \in X THEN 1 ELSE 0) + 2 * BitsValue(X, lo + 1, n - 1)

\* The bits of a limb (an integer in 0..Base-1) placed from position lo.
LimbBits(v, lo) == {lo + k : k \in {j \in 0..15 : (v \div (2^j)) % 2 = 1}}

(***************************************************************************)
(* float64 <-> integer conversions.                                        *)
(***************************************************************************)
\* float64(X) for a uint32 X.
Float64FromUint32(X) ==
    Scaled([i \in LimbIdx |->
               IF i <= 2 THEN BitsValue(X, 16 * (i - 1), 16) ELSE 0])

\* uint32(f) for a float64 f: the fraction is discarded.  When the integer
\* part is not a uint32 value, Go leaves the result to the implementation:
\* "wrap" keeps the low 32 bits of the integer part (amd64), "saturate"
\* clamps to 0 .. 2^32-1 (arm64).
Uint32FromFloat64(f, conv) ==
    Bind(Unscaled(f), LAMBDA t :
        LET fits == ~FIsNeg(t) /\ \A i \in 3..Limbs : t[i] = 0
            low == LimbBits(t[1], 0) \cup LimbBits(t[2], 16)
        IN  IF fits THEN low
            ELSE IF conv = "wrap" THEN low
            ELSE IF FIsNeg(t) THEN {} ELSE Word32)

(***************************************************************************)
(* Range codec (src/geohash.go: encodeRange, decodeRange).                 *)
(***************************************************************************)
exp232 == Ldexp(FOne, AxisBits)

\* p := (x + r) / (2 * r); return uint32(p * exp232)
encodeRange(x, r, conv) ==
    LET p == FQuoInt(FAdd(x, FInt(r)), 2 * r)
    IN  Uint32FromFloat64(FMulPow2(p, AxisBits), conv)

\* p := float64(X) / exp232; x := 2*r*p - r
decodeRange(X, r) ==
    LET p == FMulPow2(Float64FromUint32(X), 0 - AxisBits)
    IN  FSub(FMulInt(p, 2 * r), FInt(r))

(***************************************************************************)
(* Bit interleaver (spread, interleave, squash, deinterleave).             *)
(***************************************************************************)
\* One rung of the ladders: X = (X | (X << n)) & mask, X = (X | (X >> n)) & mask.
SpreadStep(X, n) == Bind(X, LAMBDA V : (V \cup Shl(V, n)) \cap LadderMask(n))
SquashStep(X, n) == Bind(X, LAMBDA V : (V \cup Shr(V, n)) \cap LadderMask(2 * n))

spread(x) ==
    SpreadStep(SpreadStep(SpreadStep(SpreadStep(SpreadStep(x, 16), 8), 4), 2), 1)

\* A faulty interleave, the axes exchanged: x on the odd bits.
interleaveExchanged(x, y) == spread(y) \cup Shl(spread(x), 1)

interleave(x, y) == spread(x) \cup Shl(spread(y), 1)

squash(X) ==
    Low32(SquashStep(SquashStep(SquashStep(SquashStep(SquashStep(
        X \cap LadderMask(1), 1), 2), 4), 8), 16))

deinterleave(X) == Bind(X, LAMBDA V : <<squash(V), squash(Shr(V, 1))>>)

(***************************************************************************)
(* Base-32 alphabet codec (base32encoding; its source is not part of the   *)
(* files modelled, so it follows the specification's description and the   *)
(* way geohash.go and its tests use it: 12 symbols, 5 bits each, most      *)
(* significant first, right-justified in the integer).                     *)
(***************************************************************************)
Alphabet ==
    << "0", "1", "2", "3", "4", "5", "6", "7", "8", "9", "b", "c", "d", "e",
       "f", "g", "h", "j", "k", "m", "n", "p", "q", "r", "s", "t", "u", "v",
       "w", "x", "y", "z" >>

Base32ValidByte(b) == \E i \in 1..Len(Alphabet) : Alphabet[i] = b

SymbolValue(b) == (CHOOSE i \in 1..Len(Alphabet) : Alphabet[i] = b) - 1

\* The 12 symbols of the low 60 bits of x, most significant group first.
Base32Encode(x) ==
    Bind(x, LAMBDA V :
        [j \in 1..MaxChars |->
            Alphabet[BitsValue(V, CharBits * (MaxChars - j), CharBits) + 1]])

\* x = (x << 5) | value(s[i]), for each symbol in turn.
RECURSIVE Base32DecodeFrom(_, _, _)
Base32DecodeFrom(s, i, x) ==
    IF i > Len(s) THEN x
    ELSE Base32DecodeFrom(s, i + 1,
             Shl(x, CharBits) \cup LimbBits(SymbolValue(s[i]), 0))

Base32Decode(s) == Bind(s, LAMBDA v : Base32DecodeFrom(v, 1, {}))

(***************************************************************************)
(* Integer and string geohash codecs.                                      *)
(***************************************************************************)
\* A run-time panic (slice bounds out of range), as a value no hash equals.
Panic == << "panic: slice bounds out of range" >>

\* s[from:] of a Go string: panics when from > len(s).
SliceFrom(s, from) ==
    Bind(s, LAMBDA v : IF from > Len(v) THEN Panic ELSE SubSeq(v, from + 1, Len(v)))

encodeInt(lat, lng, conv) ==
    LET latInt == encodeRange(lat, LatRange, conv)
        lngInt == encodeRange(lng, LngRange, conv)
    IN  interleave(latInt, lngInt)

EncodeInt(lat, lng, conv) == encodeInt(lat, lng, conv)

EncodeIntWithPrecision(lat, lng, bits, conv) ==
    LET hash == EncodeInt(lat, lng, conv)
    IN  Shr(hash, UintSub(WordBits, bits))

\* A faulty EncodeWithPrecision, returning enc[:chars]: the leading symbols
\* of the 12, and not the trailing ones.
EncodeWithPrecisionLeading(lat, lng, chars, conv) ==
    LET bits == CharBits * chars
        inthash == EncodeIntWithPrecision(lat, lng, bits, conv)
    IN  Bind(Base32Encode(inthash), LAMBDA e :
            IF chars > Len(e) THEN Panic ELSE SubSeq(e, 1, chars))

\* A faulty EncodeWithPrecision, clamping chars to the 12 symbols there are.
EncodeWithPrecisionClamped(lat, lng, chars, conv) ==
    LET bits == CharBits * chars
        inthash == EncodeIntWithPrecision(lat, lng, bits, conv)
    IN  Bind(Base32Encode(inthash), LAMBDA e :
            IF chars > Len(e) THEN e ELSE SubSeq(e, Len(e) - chars + 1, Len(e)))

EncodeWithPrecision(lat, lng, chars, conv) ==
    LET bits == CharBits * chars
        inthash == EncodeIntWithPrecision(lat, lng, bits, conv)
        enc == Base32Encode(inthash)
    IN  SliceFrom(enc, UintSub(MaxChars, chars))

Encode(lat, lng, conv) == EncodeWithPrecision(lat, lng, MaxChars, conv)

(***************************************************************************)
(* Box and the precision model.                                            *)
(***************************************************************************)
\* Center: lat = (MinLat + MaxLat) / 2.0, lng = (MinLng + MaxLng) / 2.0
Center(b) ==
    Bind(b, LAMBDA v :
        << FQuoInt(FAdd(v.MinLat, v.MaxLat), 2),
           FQuoInt(FAdd(v.MinLng, v.MaxLng), 2) >>)

\* Contains: inclusive of the edges and corners.
Contains(b, lat, lng) ==
    Bind(b, LAMBDA v :
        Bind2(lat, lng, LAMBDA la, ln :
            /\ FLeq(v.MinLat, la) /\ FLeq(la, v.MaxLat)
            /\ FLeq(v.MinLng, ln) /\ FLeq(ln, v.MaxLng)))

\* The decimal exponents a box width can have: 360 has exponent 2, and the
\* resolution of the model's numbers is 10^-DecPlaces.
DecimalExponents == (0 - DecPlaces)..2

\* math.Pow10(m).
Pow10(m) == FMulPow10(FOne, m)

\* int(math.Floor(math.Log10(r))) for r > 0: the m with 10^m <= r < 10^(m+1).
PowersOf10 == Bind(DecimalExponents, LAMBDA S : [ m \in S |-> Pow10(m) ])

FloorLog10(r) ==
    Bind(r, LAMBDA v :
        CHOOSE m \in DecimalExponents :
            /\ FLeq(PowersOf10[m], v)
            /\ m + 1 \in DecimalExponents => FLess(v, PowersOf10[m + 1]))

\* A faulty maxDecimalPower, one decimal place too coarse.
maxDecimalPowerCoarse(r) == FloorLog10(r) + 1

\* maxDecimalPower(r) is math.Pow10(m) for m = FloorLog10(r); the model
\* carries the exponent m, and multiplies and divides by 10^m exactly.
maxDecimalPower(r) == FloorLog10(r)

\* math.Ceil(min / x) * x for x = 10^m.
RoundAxis(min, x) ==
    Bind2(min, x, LAMBDA v, m : FMulPow10(FCeil(FMulPow10(v, 0 - m)), m))

\* Round: a point inside the box, rounded to minimal precision.
Round(b) ==
    Bind(b, LAMBDA v :
        << RoundAxis(v.MinLat, maxDecimalPower(FSub(v.MaxLat, v.MinLat))),
           RoundAxis(v.MinLng, maxDecimalPower(FSub(v.MaxLng, v.MinLng))) >>)

\* A faulty errorWithPrecision, giving latitude the odd bit.
errorWithPrecisionLatFirst(bits) ==
    LET b == bits
        lngBits == b \div 2
        latBits == b - lngBits
    IN  << Ldexp(FInt(2 * LatRange), 0 - latBits),
           Ldexp(FInt(2 * LngRange), 0 - lngBits) >>

\* errorWithPrecision: <<latErr, lngErr>>.
errorWithPrecision(bits) ==
    LET b == bits
        latBits == b \div 2
        lngBits == b - latBits
    IN  << Ldexp(FInt(2 * LatRange), 0 - latBits),
           Ldexp(FInt(2 * LngRange), 0 - lngBits) >>

BoundingBoxIntWithPrecision(hash, bits) ==
    Bind2(deinterleave(Shl(hash, UintSub(WordBits, bits))),
          errorWithPrecision(bits),
          LAMBDA ints, err :
              Bind2(decodeRange(ints[1], LatRange), decodeRange(ints[2], LngRange),
                    LAMBDA lat, lng :
                        [ MinLat |-> lat, MaxLat |-> FAdd(lat, err[1]),
                          MinLng |-> lng, MaxLng |-> FAdd(lng, err[2]) ]))

BoundingBoxInt(hash) == BoundingBoxIntWithPrecision(hash, WordBits)

BoundingBox(hash) ==
    Bind(hash, LAMBDA h :
        BoundingBoxIntWithPrecision(Base32Decode(h), CharBits * Len(h)))

(***************************************************************************)
(* Validate, Decode and the conversions.                                   *)
(***************************************************************************)
NoError == [kind |-> "nil", byte |-> ""]
TooLong == [kind |-> "too long", byte |-> ""]
InvalidCharacter(b) == [kind |-> "invalid character", byte |-> b]

\* The loop over the bytes: the first byte that is not valid is reported.
RECURSIVE ValidateFrom(_, _)
ValidateFrom(hash, i) ==
    IF i > Len(hash) THEN NoError
    ELSE IF ~Base32ValidByte(hash[i]) THEN InvalidCharacter(hash[i])
    ELSE ValidateFrom(hash, i + 1)

\* A faulty Validate, looking at the bytes before the length.
ValidateBytesFirst(hash) ==
    Bind(hash, LAMBDA h :
        Bind(ValidateFrom(h, 1), LAMBDA e :
            IF e # NoError THEN e
            ELSE IF CharBits * Len(h) > WordBits THEN TooLong ELSE NoError))

Validate(hash) ==
    Bind(hash, LAMBDA h :
        IF CharBits * Len(h) > WordBits THEN TooLong ELSE ValidateFrom(h, 1))

Decode(hash) == Round(BoundingBox(hash))

DecodeCenter(hash) == Center(BoundingBox(hash))

DecodeIntWithPrecision(hash, bits) == Round(BoundingBoxIntWithPrecision(hash, bits))

\* A faulty ConvertStringToInt, the integer left-justified in the 64 bits.
ConvertStringToIntLeft(hash) ==
    Bind(hash, LAMBDA h :
        << Shl(Base32Decode(h), UintSub(WordBits, CharBits * Len(h))), CharBits * Len(h) >>)

\* <<integer hash, precision in bits>>
ConvertStringToInt(hash) ==
    Bind(hash, LAMBDA h : << Base32Decode(h), CharBits * Len(h) >>)

\* A faulty ConvertIntToString, returning the leading symbols of the 12.
ConvertIntToStringLeading(hash, chars) ==
    Bind(Base32Encode(hash), LAMBDA e :
        IF chars > Len(e) THEN Panic ELSE SubSeq(e, 1, chars))

ConvertIntToString(hash, chars) ==
    SliceFrom(Base32Encode(hash), UintSub(MaxChars, chars))

(***************************************************************************)
(* Neighbor derivation.                                                    *)
(***************************************************************************)
North == 0
NorthEast == 1
East == 2
SouthEast == 3
South == 4
SouthWest == 5
West == 6
NorthWest == 7
Directions == North..NorthWest

\* Faulty neighbor points, east and west exchanged.
NeighborPointsMirrored(b) ==
    Bind(b, LAMBDA box :
        Bind2(Center(box),
              << FSub(box.MaxLat, box.MinLat), FSub(box.MinLng, box.MaxLng) >>,
              LAMBDA c, delta :
                  << << FAdd(c[1], delta[1]), c[2] >>,
                     << FAdd(c[1], delta[1]), FAdd(c[2], delta[2]) >>,
                     << c[1], FAdd(c[2], delta[2]) >>,
                     << FSub(c[1], delta[1]), FAdd(c[2], delta[2]) >>,
                     << FSub(c[1], delta[1]), c[2] >>,
                     << FSub(c[1], delta[1]), FSub(c[2], delta[2]) >>,
                     << c[1], FSub(c[2], delta[2]) >>,
                     << FAdd(c[1], delta[1]), FSub(c[2], delta[2]) >> >>))

\* The eight points the neighbors are encoded from, in the order
\* N, NE, E, SE, S, SW, W, NW: center +/- delta on each axis.
NeighborPoints(b) ==
    Bind(b, LAMBDA box :
        Bind2(Center(box),
              << FSub(box.MaxLat, box.MinLat), FSub(box.MaxLng, box.MinLng) >>,
              LAMBDA c, delta :
                  LET lat == c[1]
                      lng == c[2]
                      latDelta == delta[1]
                      lngDelta == delta[2]
                  IN  << << FAdd(lat, latDelta), lng >>,
                         << FAdd(lat, latDelta), FAdd(lng, lngDelta) >>,
                         << lat, FAdd(lng, lngDelta) >>,
                         << FSub(lat, latDelta), FAdd(lng, lngDelta) >>,
                         << FSub(lat, latDelta), lng >>,
                         << FSub(lat, latDelta), FSub(lng, lngDelta) >>,
                         << lat, FSub(lng, lngDelta) >>,
                         << FAdd(lat, latDelta), FSub(lng, lngDelta) >> >>))

Neighbors(hash, conv) ==
    Bind(hash, LAMBDA h :
        Bind(NeighborPoints(BoundingBox(h)), LAMBDA pts :
            LET precision == Len(h)
            IN  [d \in 1..8 |->
                    EncodeWithPrecision(pts[d][1], pts[d][2], precision, conv)]))

NeighborsIntWithPrecision(hash, bits, conv) ==
    Bind(NeighborPoints(BoundingBoxIntWithPrecision(hash, bits)), LAMBDA pts :
        [d \in 1..8 |->
            EncodeIntWithPrecision(pts[d][1], pts[d][2], bits, conv)])

NeighborsInt(hash, conv) == NeighborsIntWithPrecision(hash, WordBits, conv)

\* Go slices are indexed from 0: direction d is element d + 1 here.
Neighbor(hash, direction, conv) ==
    Bind(Neighbors(hash, conv), LAMBDA l : l[direction + 1])

NeighborInt(hash, direction, conv) ==
    Bind(NeighborsIntWithPrecision(hash, WordBits, conv), LAMBDA l : l[direction + 1])

NeighborIntWithPrecision(hash, bits, direction, conv) ==
    Bind(NeighborsIntWithPrecision(hash, bits, conv), LAMBDA l : l[direction + 1])

(***************************************************************************)
(* Sampled inputs.                                                         *)
(***************************************************************************)
\* 2^-40 degrees: a float64 step near every coordinate of the range.
Nudge == Ldexp(FOne, -40)

\* The offsets added to a grid coordinate of the axis of range r: none, one
\* nudge below and above (the neighbouring cell of every precision, and the
\* same cell), and five steps of the 32-bit axis code.
AxisOffsets(r) ==
    { FZero, Nudge, FNeg(Nudge), Ldexp(FInt(5 * 2 * r), 0 - AxisBits) }

\* The coordinates -r + 2r k / 2^GridBits, both ends included.
AxisGrid(r) ==
    { FSub(Ldexp(FInt(2 * r * k), 0 - GridBits), FInt(r)) : k \in 0..(2^GridBits) }

InRange(x, r) == FLeq(FInt(0 - r), x) /\ FLeq(x, FInt(r))

AxisSamples(r) ==
    { x \in { FAdd(g, o) : g \in AxisGrid(r), o \in AxisOffsets(r) } : InRange(x, r) }

AxisCore(r) == { FInt(0 - r), Ldexp(FInt(r), -2), FInt(r) }

\* The sampled points <<lat, lng>>: every sampled coordinate of one axis
\* with a few of the other.
Points ==
    { <<a, b>> : a \in AxisSamples(LatRange), b \in AxisCore(LngRange) }
        \cup { <<a, b>> : a \in AxisCore(LatRange), b \in AxisSamples(LngRange) }

\* The number of generated patterns of words and of strings.
PatternCount == 3

\* How far past the maximum precision the out-of-domain calls go.
MaxOver == 2

Patterns == 1..PatternCount

\* 64-bit words: zero, all ones, and irregular patterns.
WordPattern(j) ==
    { i \in Word64 : ((i * i * (j + 2) + 5 * j * i) \div (2 * j + 3)) % 2 = 1 }

WordSources == { {}, Word64 } \cup { WordPattern(j) : j \in Patterns }

\* The right-justified hashes of the given precision: the leading bits of
\* every source word.
CellSamples(bits) == { Shr(P, WordBits - bits) : P \in WordSources }

\* 32-bit words: zero, all ones, every single bit, and irregular patterns.
WordSamples32 ==
    { {}, Word32 } \cup { {i} : i \in Word32 } \cup { Low32(WordPattern(j)) : j \in Patterns }

\* Strings of alphabet symbols, longer than the maximum precision.
MaxLen == MaxChars + MaxOver

PatternSymbol(j, i) == (j * j * i + 11 * j * i * i + 31 * j) % 32

StringPattern(j) == [ i \in 1..MaxLen |-> Alphabet[PatternSymbol(j, i) + 1] ]

StringSources ==
    { [ i \in 1..MaxLen |-> "0" ], [ i \in 1..MaxLen |-> "z" ] }
        \cup { StringPattern(j) : j \in Patterns }

Prefix(s, n) == SubSeq(s, 1, n)

\* The string hashes of every precision 0..12.
HashStrings == { Prefix(s, n) : s \in StringSources, n \in 0..MaxChars }

\* Bytes outside the alphabet.
BadBytes == { "a", "i", "l", "o", "A", " " }

Corrupt(s, p, b) == [ s EXCEPT ![p] = b ]

\* The inputs of Validate: strings of alphabet symbols of every length up to
\* MaxLen, the same with one byte outside the alphabet at any position, and
\* with a second, different one at the end.
ValidateSamples ==
    LET valid == { Prefix(s, n) : s \in StringSources, n \in 0..MaxLen }
        one == { Corrupt(t[1], t[2], t[3]) :
                    t \in { u \in valid \X (1..MaxLen) \X BadBytes : u[2] <= Len(u[1]) } }
        two == { Corrupt(Corrupt(s, 1, b), Len(s), c) :
                    s \in { v \in valid : Len(v) > 1 },
                    b \in BadBytes, c \in BadBytes \ { "A", " " } }
    IN  valid \cup one \cup two

\* Out-of-domain precisions.
LongChars == (MaxChars + 1)..(MaxChars + MaxOver)
WideBits == (WordBits + 1)..(WordBits + MaxOver)

(***************************************************************************)
(* The state: a client's session with the package.  calls is the sequence  *)
(* of operations called so far; the other variables hold the arguments and *)
(* the results of the calls.                                               *)
(***************************************************************************)
VARIABLES
    conv,       \* how this build converts an out-of-range float64 to uint32
    calls,      \* the operations called so far
    lat, lng,   \* the point given to the encoders
    prec,       \* the precision argument: chars or bits
    dir,        \* the direction argument
    hash,       \* the string hash argument
    inthash,    \* the integer hash argument
    full,       \* result of Encode
    fullInt,    \* result of EncodeInt
    enc,        \* result of EncodeWithPrecision and ConvertIntToString
    encInt,     \* result of EncodeIntWithPrecision
    box,        \* result of BoundingBox and BoundingBoxIntWithPrecision
    dec,        \* result of Decode: <<lat, lng>>
    err,        \* result of Validate
    cvt,        \* result of ConvertStringToInt: <<integer hash, bits>>
    list,       \* result of Neighbors
    listInt,    \* result of NeighborsIntWithPrecision
    one,        \* result of Neighbor
    oneInt,     \* result of NeighborIntWithPrecision
    x, y,       \* the arguments of interleave
    w,          \* result of interleave
    xy,         \* result of deinterleave
    fault,      \* the last call panicked
    other,      \* a second integer hash of the same precision
    otherBox    \* its bounding box

vars ==
    << conv, calls, lat, lng, prec, dir, hash, inthash, full, fullInt, enc,
       encInt, box, dec, err, cvt, list, listInt, one, oneInt, x, y, w, xy,
       fault, other, otherBox >>

NoBox == [ MinLat |-> FZero, MaxLat |-> FZero, MinLng |-> FZero, MaxLng |-> FZero ]

\* No argument and no result yet.
Blank ==
    /\ lat = FZero /\ lng = FZero /\ prec = 0 /\ dir = 0
    /\ hash = << >> /\ inthash = {}
    /\ full = << >> /\ fullInt = {} /\ enc = << >> /\ encInt = {}
    /\ box = NoBox /\ dec = << FZero, FZero >> /\ err = NoError
    /\ cvt = << {}, 0 >> /\ list = << >> /\ listInt = << >>
    /\ one = << >> /\ oneInt = {}
    /\ x = {} /\ y = {} /\ w = {} /\ xy = << {}, {} >>
    /\ fault = FALSE /\ other = {} /\ otherBox = NoBox

\* amd64 wraps an out-of-range conversion, arm64 saturates it.
Builds == { "wrap", "saturate" }

Init == conv \in Builds /\ calls = << >> /\ Blank

Idle == calls = << >>
Last == IF Idle THEN "" ELSE calls[Len(calls)]
Called(op) == calls' = Append(calls, op)

(***************************************************************************)
(* The operations.                                                         *)
(***************************************************************************)
CallEncode ==
    /\ Idle
    /\ \E pt \in Points :
        /\ lat' = pt[1] /\ lng' = pt[2]
        /\ full' = Encode(pt[1], pt[2], conv)
    /\ Called("Encode")
    /\ UNCHANGED << conv, prec, dir, hash, inthash, fullInt, enc, encInt,
                    box, dec, err, cvt, list, listInt, one, oneInt, x, y, w,
                    xy, fault, other, otherBox >>

CallEncodeInt ==
    /\ calls = << "Encode" >>
    /\ fullInt' = EncodeInt(lat, lng, conv)
    /\ Called("EncodeInt")
    /\ UNCHANGED << conv, lat, lng, prec, dir, hash, inthash, full, enc,
                    encInt, box, dec, err, cvt, list, listInt, one, oneInt,
                    x, y, w, xy, fault, other, otherBox >>

\* EncodeWithPrecision(pt, chars) for a point and a precision of the sets.
EncodeWithPrecisionOf(pts, precisions) ==
    /\ \E pt \in pts, chars \in precisions :
        /\ lat' = pt[1] /\ lng' = pt[2] /\ prec' = chars
        /\ \E r \in { EncodeWithPrecision(pt[1], pt[2], chars, conv) } :
            /\ fault' = (r = Panic)
            /\ enc' = IF r = Panic THEN << >> ELSE r
    /\ Called("EncodeWithPrecision")
    /\ UNCHANGED << conv, dir, hash, inthash, full, fullInt, encInt, box,
                    dec, err, cvt, list, listInt, one, oneInt, x, y, w, xy,
                    other, otherBox >>

CallEncodeWithPrecision == Idle /\ EncodeWithPrecisionOf(Points, 0..MaxChars)

\* The point of the last Encode, at every precision.
CallEncodeWithPrecisionAgain ==
    calls = << "Encode" >> /\ EncodeWithPrecisionOf({ << lat, lng >> }, 0..MaxChars)

\* The point Decode returned, at the precision of the decoded hash.
CallEncodeWithPrecisionDecoded ==
    calls = << "Decode" >> /\ EncodeWithPrecisionOf({ dec }, { Len(hash) })

CallEncodeWithPrecisionLong ==
    Idle /\ EncodeWithPrecisionOf(Points, LongChars)

EncodeIntWithPrecisionOf(precisions) ==
    /\ Idle
    /\ \E pt \in Points, bits \in precisions :
        /\ lat' = pt[1] /\ lng' = pt[2] /\ prec' = bits
        /\ encInt' = EncodeIntWithPrecision(pt[1], pt[2], bits, conv)
        /\ fault' = FALSE
    /\ Called("EncodeIntWithPrecision")
    /\ UNCHANGED << conv, dir, hash, inthash, full, fullInt, enc, box, dec,
                    err, cvt, list, listInt, one, oneInt, x, y, w, xy, other,
                    otherBox >>

CallEncodeIntWithPrecision == EncodeIntWithPrecisionOf(0..WordBits)

CallEncodeIntWithPrecisionWide == EncodeIntWithPrecisionOf(WideBits)

BoundingBoxOf(hashes) ==
    /\ \E h \in hashes :
        /\ hash' = h
        /\ box' = BoundingBox(h)
    /\ Called("BoundingBox")
    /\ UNCHANGED << conv, lat, lng, prec, dir, inthash, full, fullInt, enc,
                    encInt, dec, err, cvt, list, listInt, one, oneInt, x, y,
                    w, xy, fault, other, otherBox >>

CallBoundingBox == Idle /\ BoundingBoxOf(HashStrings)

CallBoundingBoxEncoded ==
    calls = << "EncodeWithPrecision" >> /\ BoundingBoxOf({ enc })

BoundingBoxIntWithPrecisionOf(hashes, bits) ==
    /\ \E h \in hashes :
        /\ inthash' = h /\ prec' = bits
        /\ box' = BoundingBoxIntWithPrecision(h, bits)
        /\ fault' = FALSE
    /\ Called("BoundingBoxIntWithPrecision")
    /\ UNCHANGED << conv, lat, lng, dir, hash, full, fullInt, enc, encInt,
                    dec, err, cvt, list, listInt, one, oneInt, x, y, w, xy,
                    other, otherBox >>

CallBoundingBoxIntWithPrecision ==
    /\ Idle
    /\ \E bits \in 0..WordBits : BoundingBoxIntWithPrecisionOf(CellSamples(bits), bits)

CallBoundingBoxIntWithPrecisionWide ==
    /\ Idle
    /\ \E bits \in WideBits : BoundingBoxIntWithPrecisionOf(WordSources, bits)

CallBoundingBoxIntWithPrecisionEncoded ==
    /\ calls = << "EncodeIntWithPrecision" >>
    /\ BoundingBoxIntWithPrecisionOf({ encInt }, prec)

\* A second hash of the same precision.
CallBoundingBoxIntWithPrecisionOther ==
    /\ calls = << "BoundingBoxIntWithPrecision" >>
    /\ \E h \in CellSamples(prec) :
        /\ other' = h
        /\ otherBox' = BoundingBoxIntWithPrecision(h, prec)
    /\ Called("BoundingBoxIntWithPrecision")
    /\ UNCHANGED << conv, lat, lng, prec, dir, hash, inthash, full, fullInt,
                    enc, encInt, box, dec, err, cvt, list, listInt, one,
                    oneInt, x, y, w, xy, fault >>

ValidateOf(hashes) ==
    /\ \E h \in hashes :
        /\ hash' = h
        /\ err' = Validate(h)
    /\ Called("Validate")
    /\ UNCHANGED << conv, lat, lng, prec, dir, inthash, full, fullInt, enc,
                    encInt, box, dec, cvt, list, listInt, one, oneInt, x, y,
                    w, xy, fault, other, otherBox >>

CallValidate == Idle /\ ValidateOf(ValidateSamples)

CallValidateEncoded == calls = << "EncodeWithPrecision" >> /\ ValidateOf({ enc })

CallDecode ==
    /\ Idle
    /\ \E h \in HashStrings :
        /\ hash' = h
        /\ dec' = Decode(h)
    /\ Called("Decode")
    /\ UNCHANGED << conv, lat, lng, prec, dir, inthash, full, fullInt, enc,
                    encInt, box, err, cvt, list, listInt, one, oneInt, x, y,
                    w, xy, fault, other, otherBox >>

ConvertStringToIntOf(hashes) ==
    /\ \E h \in hashes :
        /\ hash' = h
        /\ cvt' = ConvertStringToInt(h)
    /\ Called("ConvertStringToInt")
    /\ UNCHANGED << conv, lat, lng, prec, dir, inthash, full, fullInt, enc,
                    encInt, box, dec, err, list, listInt, one, oneInt, x, y,
                    w, xy, fault, other, otherBox >>

CallConvertStringToInt == Idle /\ ConvertStringToIntOf(HashStrings)

\* The prefixes of the last Encode.
CallConvertStringToIntPrefix ==
    /\ calls = << "Encode", "EncodeInt" >>
    /\ ConvertStringToIntOf({ Prefix(full, k) : k \in 1..MaxChars })

ConvertIntToStringOf(hashes, precisions) ==
    /\ \E h \in hashes, chars \in precisions :
        /\ inthash' = h /\ prec' = chars
        /\ \E r \in { ConvertIntToString(h, chars) } :
            /\ fault' = (r = Panic)
            /\ enc' = IF r = Panic THEN << >> ELSE r
    /\ Called("ConvertIntToString")
    /\ UNCHANGED << conv, lat, lng, dir, hash, full, fullInt, encInt, box,
                    dec, err, cvt, list, listInt, one, oneInt, x, y, w, xy,
                    other, otherBox >>

\* Back from the result of ConvertStringToInt.
CallConvertIntToStringBack ==
    /\ Last = "ConvertStringToInt"
    /\ ConvertIntToStringOf({ cvt[1] }, { Len(hash) })

CallConvertIntToString ==
    /\ Idle
    /\ \E chars \in 0..MaxLen :
        ConvertIntToStringOf(CellSamples(IF chars > MaxChars THEN WordBits ELSE CharBits * chars), { chars })

CallNeighbors ==
    /\ Idle
    /\ \E h \in HashStrings :
        /\ hash' = h
        /\ list' = Neighbors(h, conv)
    /\ Called("Neighbors")
    /\ UNCHANGED << conv, lat, lng, prec, dir, inthash, full, fullInt, enc,
                    encInt, box, dec, err, cvt, listInt, one, oneInt, x, y,
                    w, xy, fault, other, otherBox >>

CallNeighbor ==
    /\ calls = << "Neighbors" >>
    /\ \E d \in Directions :
        /\ dir' = d
        /\ one' = Neighbor(hash, d, conv)
    /\ Called("Neighbor")
    /\ UNCHANGED << conv, lat, lng, prec, hash, inthash, full, fullInt, enc,
                    encInt, box, dec, err, cvt, list, listInt, oneInt, x, y,
                    w, xy, fault, other, otherBox >>

CallNeighborsIntWithPrecision ==
    /\ Idle
    /\ \E bits \in 0..WordBits : \E h \in CellSamples(bits) :
        /\ inthash' = h /\ prec' = bits
        /\ listInt' = NeighborsIntWithPrecision(h, bits, conv)
    /\ Called("NeighborsIntWithPrecision")
    /\ UNCHANGED << conv, lat, lng, dir, hash, full, fullInt, enc, encInt,
                    box, dec, err, cvt, list, one, oneInt, x, y, w, xy,
                    fault, other, otherBox >>

CallNeighborIntWithPrecision ==
    /\ calls = << "NeighborsIntWithPrecision" >>
    /\ \E d \in Directions :
        /\ dir' = d
        /\ oneInt' = NeighborIntWithPrecision(inthash, prec, d, conv)
    /\ Called("NeighborIntWithPrecision")
    /\ UNCHANGED << conv, lat, lng, prec, hash, inthash, full, fullInt, enc,
                    encInt, box, dec, err, cvt, list, listInt, one, x, y, w,
                    xy, fault, other, otherBox >>

CallInterleave ==
    /\ Idle
    /\ \E a \in WordSamples32, b \in WordSamples32 :
        /\ x' = a /\ y' = b
        /\ w' = interleave(a, b)
    /\ Called("interleave")
    /\ UNCHANGED << conv, lat, lng, prec, dir, hash, inthash, full, fullInt,
                    enc, encInt, box, dec, err, cvt, list, listInt, one,
                    oneInt, xy, fault, other, otherBox >>

CallDeinterleave ==
    /\ calls = << "interleave" >>
    /\ xy' = deinterleave(w)
    /\ Called("deinterleave")
    /\ UNCHANGED << conv, lat, lng, prec, dir, hash, inthash, full, fullInt,
                    enc, encInt, box, dec, err, cvt, list, listInt, one,
                    oneInt, x, y, w, fault, other, otherBox >>

\* The session ends: the next one starts from nothing.
Return ==
    /\ ~Idle
    /\ calls' = << >>
    /\ lat' = FZero /\ lng' = FZero /\ prec' = 0 /\ dir' = 0
    /\ hash' = << >> /\ inthash' = {}
    /\ full' = << >> /\ fullInt' = {} /\ enc' = << >> /\ encInt' = {}
    /\ box' = NoBox /\ dec' = << FZero, FZero >> /\ err' = NoError
    /\ cvt' = << {}, 0 >> /\ list' = << >> /\ listInt' = << >>
    /\ one' = << >> /\ oneInt' = {}
    /\ x' = {} /\ y' = {} /\ w' = {} /\ xy' = << {}, {} >>
    /\ fault' = FALSE /\ other' = {} /\ otherBox' = NoBox
    /\ UNCHANGED conv

(***************************************************************************)
(* The specifications: the sessions each property is about.                *)
(***************************************************************************)
NextBits == CallInterleave \/ CallDeinterleave \/ Return
SpecBits == Init /\ [][NextBits]_vars

NextPrefix == CallEncode \/ CallEncodeWithPrecisionAgain \/ Return
SpecPrefix == Init /\ [][NextPrefix]_vars

NextContain ==
    \/ CallEncodeWithPrecision
    \/ CallBoundingBoxEncoded
    \/ CallEncodeIntWithPrecision
    \/ CallBoundingBoxIntWithPrecisionEncoded
    \/ Return
SpecContain == Init /\ [][NextContain]_vars

NextDecode == CallDecode \/ CallEncodeWithPrecisionDecoded \/ Return
SpecDecode == Init /\ [][NextDecode]_vars

NextConvert ==
    \/ CallEncode
    \/ CallEncodeInt
    \/ CallConvertStringToIntPrefix
    \/ CallConvertStringToInt
    \/ CallConvertIntToStringBack
    \/ Return
SpecConvert == Init /\ [][NextConvert]_vars

NextValidate ==
    \/ CallValidate
    \/ CallEncodeWithPrecision
    \/ CallValidateEncoded
    \/ Return
SpecValidate == Init /\ [][NextValidate]_vars

NextTotal ==
    \/ CallEncodeWithPrecision
    \/ CallEncodeWithPrecisionLong
    \/ CallConvertIntToString
    \/ CallEncodeIntWithPrecisionWide
    \/ CallBoundingBoxIntWithPrecision
    \/ CallBoundingBoxIntWithPrecisionWide
    \/ Return
SpecTotal == Init /\ [][NextTotal]_vars

NextNeighbors ==
    \/ CallNeighbors
    \/ CallNeighbor
    \/ CallNeighborsIntWithPrecision
    \/ CallNeighborIntWithPrecision
    \/ Return
SpecNeighbors == Init /\ [][NextNeighbors]_vars

NextBox ==
    \/ CallBoundingBoxIntWithPrecision
    \/ CallBoundingBoxIntWithPrecisionOther
    \/ Return
SpecBox == Init /\ [][NextBox]_vars

Next ==
    \/ NextBits \/ NextPrefix \/ NextContain \/ NextDecode \/ NextConvert
    \/ NextValidate \/ NextTotal \/ NextNeighbors \/ NextBox
    \/ CallBoundingBox
Spec == Init /\ [][Next]_vars

(***************************************************************************)
(* The properties.                                                         *)
(***************************************************************************)
\* C1: for every in-range point and every k in 1..12, the hash
\* EncodeWithPrecision(lat, lng, k) is the first k characters of the
\* 12-character Encode(lat, lng), and for k < 12 the first k characters of
\* EncodeWithPrecision(lat, lng, k + 1).
PrefixProperty ==
    (calls = << "Encode", "EncodeWithPrecision" >> /\ prec \in 1..MaxChars) =>
        /\ enc = Prefix(full, prec)
        /\ prec < MaxChars =>
            Bind(EncodeWithPrecision(lat, lng, prec + 1, conv),
                 LAMBDA longer : enc = Prefix(longer, prec))

PrefixWitness ==
    /\ calls = << "Encode", "EncodeWithPrecision" >>
    /\ prec = 5 /\ Len(enc) = 5 /\ enc = Prefix(full, 5)
    /\ enc[1] # enc[5] /\ full[6] # "0"

\* C2: deinterleave(interleave(x, y)) is (x, y) for all 32-bit x and y, and
\* interleave puts bit i of x at bit 2i and bit i of y at bit 2i + 1 of the
\* 64-bit result.
InterleaveRoundTrip ==
    /\ Last \in { "interleave", "deinterleave" } =>
        w = { 2 * i : i \in x } \cup { 2 * i + 1 : i \in y }
    /\ Last = "deinterleave" => xy = << x, y >>

InterleaveWitness ==
    /\ Last = "deinterleave" /\ xy = << x, y >>
    /\ Cardinality(x) > 1 /\ Cardinality(y) > 1 /\ x # y /\ 31 \in y

\* C3: for every point with lat in [-90, 90] and lng in [-180, 180], both
\* ends included, the bounding box of the point's hash contains the point,
\* for a string hash of 0..12 characters and an integer hash of 0..64 bits.
Containment ==
    /\ calls = << "EncodeWithPrecision", "BoundingBox" >> =>
        Contains(box, lat, lng)
    /\ calls = << "EncodeIntWithPrecision", "BoundingBoxIntWithPrecision" >> =>
        Contains(box, lat, lng)

CrossRepresentation ==
    calls = << "Encode", "EncodeInt", "ConvertStringToInt" >> =>
        /\ hash = Prefix(full, Len(hash))
        /\ Len(hash) \in 1..MaxChars
        /\ cvt = << { i - (64 - 5 * Len(hash)) : i \in fullInt } \cap 0..63,
                    5 * Len(hash) >>

CrossRepresentationWitness ==
    /\ calls = << "Encode", "EncodeInt", "ConvertStringToInt" >>
    /\ Len(hash) = 7 /\ cvt[2] = 35
    /\ 0 \in cvt[1] /\ 34 \in cvt[1] /\ 33 \notin cvt[1]

\* C6: for every string H of k in 1..12 alphabet symbols, with
\* (v, 5k) = ConvertStringToInt(H), ConvertIntToString(v, k) is H; and for
\* every point ConvertIntToString(EncodeInt(lat, lng) >> (64 - 5k), k) is
\* the first k characters of Encode(lat, lng).
ConvertInverse ==
    /\ (/\ Len(calls) > 1
        /\ Last = "ConvertIntToString"
        /\ calls[Len(calls) - 1] = "ConvertStringToInt"
        /\ Len(hash) \in 1..MaxChars) =>
            /\ ~fault
            /\ cvt[2] = 5 * Len(hash)
            /\ inthash = cvt[1]
            /\ enc = hash
    /\ calls = << "Encode", "EncodeInt", "ConvertStringToInt", "ConvertIntToString" >> =>
        Bind(ConvertIntToString(Shr(fullInt, 64 - 5 * prec), prec),
             LAMBDA s : s = Prefix(full, prec))

ConvertInverseWitness ==
    /\ calls = << "ConvertStringToInt", "ConvertIntToString" >>
    /\ Len(hash) = 9 /\ enc = hash /\ hash[1] # hash[2] /\ hash[1] # "0"

\* The 32 symbols of the alphabet.
Symbols == { Alphabet[i] : i \in 1..Len(Alphabet) }

\* C7: Validate returns no error exactly for the strings of at most 12
\* characters, all of them alphabet symbols; the "too long" error for every
\* string of 13 or more characters, whatever they are; and otherwise the
\* "invalid character" error naming the first byte outside the alphabet.
\* Every hash EncodeWithPrecision produces passes.
ValidateOutcome ==
    Last = "Validate" =>
        LET bad == { i \in 1..Len(hash) : hash[i] \notin Symbols }
        IN  /\ (err.kind = "nil") <=> (Len(hash) <= 12 /\ bad = {})
            /\ Len(hash) >= 13 => err = [kind |-> "too long", byte |-> ""]
            /\ (Len(hash) <= 12 /\ bad # {}) =>
                 err = [kind |-> "invalid character",
                        byte |-> hash[CHOOSE i \in bad : \A j \in bad : i <= j]]
            /\ calls = << "EncodeWithPrecision", "Validate" >> => err.kind = "nil"

ValidateWitness ==
    /\ calls = << "Validate" >>
    /\ Len(hash) = 12 /\ hash[12] = "o" /\ hash[1] = "a"
    /\ err = [kind |-> "invalid character", byte |-> "a"]

\* C8, as the spec states it: no call of an operation other than Validate
\* raises a fault, whatever the precision.
NeverFaults == ~fault

\* C8, as the code has it: EncodeIntWithPrecision and
\* BoundingBoxIntWithPrecision return for every precision, past 64 bits
\* the hash 0 and the box of the hash 0; EncodeWithPrecision and
\* ConvertIntToString return a string of chars characters for chars in
\* 0..12 and panic for chars > 12.
FaultsPastMaxChars ==
    /\ Last \in { "EncodeWithPrecision", "ConvertIntToString" } =>
        /\ fault <=> prec > 12
        /\ ~fault => Len(enc) = prec
    /\ Last \in { "EncodeIntWithPrecision", "BoundingBoxIntWithPrecision" } =>
        /\ ~fault
        /\ (Last = "EncodeIntWithPrecision" /\ prec > 64) => encInt = {}
        /\ (Last = "BoundingBoxIntWithPrecision" /\ prec > 64) =>
            /\ box.MinLat = FInt(-90) /\ box.MinLng = FInt(-180)
            /\ FLess(box.MinLat, box.MaxLat) /\ FLess(box.MinLng, box.MaxLng)

FaultWitness ==
    /\ calls = << "EncodeWithPrecision" >> /\ prec = 13 /\ fault
    /\ FLess(FZero, lat)

\* One cell up and to the right, per direction N, NE, E, SE, S, SW, W, NW.
StepNorth == << 1, 1, 0, -1, -1, -1, 0, 1 >>
StepEast == << 0, 1, 1, 1, 0, -1, -1, -1 >>

Translated(b, d) ==
    LET height == FSub(b.MaxLat, b.MinLat)
        width == FSub(b.MaxLng, b.MinLng)
        up == IF StepNorth[d] = 1 THEN height
              ELSE IF StepNorth[d] = 0 THEN FZero ELSE FNeg(height)
        right == IF StepEast[d] = 1 THEN width
                 ELSE IF StepEast[d] = 0 THEN FZero ELSE FNeg(width)
    IN  [ MinLat |-> FAdd(b.MinLat, up), MaxLat |-> FAdd(b.MaxLat, up),
          MinLng |-> FAdd(b.MinLng, right), MaxLng |-> FAdd(b.MaxLng, right) ]

\* The cell touches no edge of the coordinate range.
Inner(b) ==
    /\ FLess(FInt(-90), b.MinLat) /\ FLess(b.MaxLat, FInt(90))
    /\ FLess(FInt(-180), b.MinLng) /\ FLess(b.MaxLng, FInt(180))

\* C9: Neighbors and NeighborsIntWithPrecision return 8 hashes of the
\* precision of the input, in the order N, NE, E, SE, S, SW, W, NW; for a
\* cell not on the edge of the coordinate range the bounding box of the
\* d-th result is the input's bounding box translated by one cell in
\* direction d; Neighbor and NeighborIntWithPrecision return element d.
NeighborDerivation ==
    /\ (calls = << "Neighbors" >> /\ Len(hash) <= MaxChars) =>
        /\ Len(list) = 8
        /\ \A d \in 1..8 : Len(list[d]) = Len(hash)
        /\ Bind(BoundingBox(hash), LAMBDA b :
              Inner(b) => \A d \in 1..8 :
                  Bind(BoundingBox(list[d]), LAMBDA n : n = Translated(b, d)))
    /\ calls = << "Neighbors", "Neighbor" >> => one = list[dir + 1]
    /\ calls = << "NeighborsIntWithPrecision" >> =>
        /\ Len(listInt) = 8
        /\ \A d \in 1..8 : listInt[d] \subseteq 0..(prec - 1)
        /\ Bind(BoundingBoxIntWithPrecision(inthash, prec), LAMBDA b :
              Inner(b) => \A d \in 1..8 :
                  Bind(BoundingBoxIntWithPrecision(listInt[d], prec),
                       LAMBDA n : n = Translated(b, d)))
    /\ calls = << "NeighborsIntWithPrecision", "NeighborIntWithPrecision" >> =>
        oneInt = listInt[dir + 1]

NeighborWitness ==
    /\ calls = << "Neighbors", "Neighbor" >>
    /\ Len(hash) = 6 /\ dir = East /\ one = list[3] /\ one # hash
    /\ Cardinality({ list[d] : d \in 1..8 }) = 8
    /\ Bind(BoundingBox(hash), LAMBDA b :
          Inner(b) /\ Bind(BoundingBox(one), LAMBDA n :
              n.MinLng = b.MaxLng /\ n.MinLat = b.MinLat /\ n.MaxLat = b.MaxLat))

\* The integer the hash's bits of one axis form: bit k of it is the bit of
\* the hash at position top - 2 * (n - 1 - k), top the position of the
\* axis's most significant bit and n the number of bits of the axis.
AxisIndex(h, top, n) == { k \in 0..(n - 1) : top - 2 * (n - 1 - k) \in h }

\* -r + i * (2r / 2^n), for the integer i given by its bits.
GridLine(i, n, r) ==
    FSub(FMulPow2(FMulInt(Float64FromUint32(i), 2 * r), 0 - n), FInt(r))

\* The interiors of the boxes have no point in common.
Apart(a, b) ==
    \/ FLeq(a.MaxLat, b.MinLat) \/ FLeq(b.MaxLat, a.MinLat)
    \/ FLeq(a.MaxLng, b.MinLng) \/ FLeq(b.MaxLng, a.MinLng)

\* C10: for bits in 0..64 and a right-justified hash < 2^bits, with
\* latBits = bits / 2 rounded down and lngBits = bits - latBits, the box
\* has height 180 / 2^latBits and width 360 / 2^lngBits,
\* MinLat = -90 + i * height and MinLng = -180 + j * width for the integers
\* i and j of the hash's latitude and longitude bits, longitude owning the
\* most significant bit; bits = 0 gives the whole world; two different
\* hashes of the same precision give different boxes that do not overlap.
BoxGeometry ==
    (Len(calls) > 0 /\ calls[1] = "BoundingBoxIntWithPrecision" /\ prec <= 64) =>
        LET latBits == prec \div 2
            lngBits == prec - latBits
            i == AxisIndex(inthash, prec - 2, latBits)
            j == AxisIndex(inthash, prec - 1, lngBits)
        IN  /\ FSub(box.MaxLat, box.MinLat) = FMulPow2(FInt(180), 0 - latBits)
            /\ FSub(box.MaxLng, box.MinLng) = FMulPow2(FInt(360), 0 - lngBits)
            /\ box.MinLat = GridLine(i, latBits, 90)
            /\ box.MinLng = GridLine(j, lngBits, 180)
            /\ prec = 0 =>
                box = [ MinLat |-> FInt(-90), MaxLat |-> FInt(90),
                        MinLng |-> FInt(-180), MaxLng |-> FInt(180) ]
            /\ (Len(calls) = 2 /\ other # inthash) =>
                box # otherBox /\ Apart(box, otherBox)

BoxWitness ==
    /\ calls = << "BoundingBoxIntWithPrecision", "BoundingBoxIntWithPrecision" >>
    /\ prec = 7 /\ other # inthash /\ 5 \in inthash /\ 5 \in other
    /\ Apart(box, otherBox)
    /\ FSub(box.MaxLng, box.MinLng) = FSub(box.MaxLat, box.MinLat)
====
